---- MODULE Spec2Model ----
(***************************************************************************)
(* Task management backend: the task routes (backend/routes/tasks.js) and  *)
(* the user routes (routes/users.js), over a user store, a task store and  *)
(* the content store (the uploads directory) that holds attachment files.  *)
(*                                                                         *)
(* Every action is one HTTP request handled to completion: the middleware  *)
(* chain of the route (auth, upload, validators) followed by the handler.  *)
(* `resp` records the request just handled, its response, and the stores   *)
(* as they were when the request arrived. SpecConc splits update and       *)
(* attachment delete at their `await task.save()` and interleaves them.    *)
(***************************************************************************)
EXTENDS Integers, Sequences, FiniteSets, TLC

\* ----------------------------------------------------------------- bounds
MaxUsers == 2      \* user records ever registered
MaxTasks == 2      \* task records ever created
MaxFiles == 4      \* files ever written to the content store
MaxRequests == 4   \* requests handled in one run
MaxInflight == 2   \* handlers suspended at their save at one time
MaxSelect == 4     \* files picked in one file dialog
MaxFetched == 2    \* tasks in one answer to the dashboard's fetch
MaxSorted == 3     \* tasks on the dashboard when its order is examined
MaxAccessRequests == 3  \* requests that follow the creation of the task

\* ------------------------------------------------------ program constants
UploadLimit == 3   \* upload.array('documents', 3)
DocumentCap == 3   \* [...task.documents, ...newDocuments].slice(0, 3)
BadId == 0         \* an identifier that is no ObjectId: findById throws a CastError
NoId == 0 - 1      \* an absent or empty identifier

Roles == {"user", "admin"}
Absent == "absent"   \* an undefined field of a request body

VARIABLES
    users,       \* user store: id -> [role]
    tasks,       \* task store: id -> task record
    files,       \* content store: the storage paths that hold a file
    nextUserId,  \* ids are generated fresh and never reused
    nextTaskId,
    nextFile,    \* upload sequence number: names the stored file and its subdocument
    handled,     \* number of requests handled so far
    resp,        \* the request just handled and its response
    inflight,    \* the handlers suspended at their save
    form,        \* client: the task form (TaskModal) and what it last sent
    dash,        \* client: the dashboard's fetched tasks, controls and list
    auth         \* client: the auth context, local storage and pending requests

vars == <<users, tasks, files, nextUserId, nextTaskId, nextFile, handled, resp, inflight,
          form, dash, auth>>

\* ---------------------------------------------------------------- helpers
Min(a, b) == IF a < b THEN a ELSE b

Range(s) == {s[i] : i \in 1..Len(s)}

\* Array.prototype.slice(0, n)
Slice(s, n) == SubSeq(s, 1, Min(Len(s), n))

\* The identity the authentication gate resolves a bearer token to: the id and
\* role claims of a token issued to a registered user.  A token outlives the
\* user record and the role the record held when it was issued, and the user
\* update route lets any role be set, so a token of a registered id may carry
\* either role.
Requesters == [id : 1..(nextUserId - 1), role : Roles]

UserIdInputs == (1..MaxUsers) \cup {BadId}
TaskIdInputs == (1..MaxTasks) \cup {BadId}
DocIdInputs == (1..MaxFiles) \cup {BadId}
FileCounts == 0..UploadLimit

\* Request bodies of task create and update: title, description, dueDate and
\* assignedTo are required; "" and NoId stand for an absent or empty field.
TaskBody(title, status, priority, assignedTo) ==
    [title |-> title, description |-> "d", dueDate |-> "2025-01-01",
     status |-> status, priority |-> priority, assignedTo |-> assignedTo]

TaskBodies ==
    {TaskBody("a", Absent, Absent, u) : u \in (1..MaxUsers) \cup {BadId, NoId}}
    \cup {TaskBody("b", "completed", "high", u) : u \in 1..MaxUsers}
    \cup {TaskBody("b", "in-progress", Absent, 1)}
    \cup {TaskBody("", "completed", "high", 1),
          [TaskBody("a", Absent, Absent, 1) EXCEPT !.description = ""],
          [TaskBody("a", Absent, Absent, 1) EXCEPT !.dueDate = ""]}

\* the email address a user registers with: one per registration
RegEmail(i) == ToString(i) \o "@x"

\* Request bodies of user update: a new name with an address nobody registered
\* with, or with the address of the second registration; an email of ""
\* stands for any value isEmail() rejects.
UserBodies ==
    {[name |-> "m", email |-> "new@x", role |-> r] : r \in Roles \cup {Absent}}
    \cup {[name |-> "m", email |-> RegEmail(2), role |-> Absent],
          [name |-> "", email |-> "new@x", role |-> Absent],
          [name |-> "m", email |-> "", role |-> Absent]}

NoBody == [none |-> TRUE]

\* The files of one multipart request as the upload middleware leaves them in
\* req.files: n files, each stored under a fresh generated filename.
ReqFiles(n) == [i \in 1..n |-> nextFile + i - 1]

\* upload.array('documents', 3) runs before the validators and the handler:
\* the files of the request are in the content store when those run.
Uploaded(n) == files \cup Range(ReqFiles(n))

\* req.files.forEach(file => documents.push({filename, originalName, path, ...}))
Documents(reqFiles) ==
    [i \in 1..Len(reqFiles) |-> [id |-> reqFiles[i], path |-> reqFiles[i]]]

Paths(docs) == {docs[i].path : i \in 1..Len(docs)}

\* Faulty variant: the dueDate validator is missing.
TaskBodyValid_NoDueDate(b) ==
    /\ b.title # ""
    /\ b.description # ""
    /\ b.assignedTo # NoId

\* body(f).not().isEmpty() for title, description, assignedTo, dueDate
TaskBodyValid(b) ==
    /\ b.title # ""
    /\ b.description # ""
    /\ b.assignedTo # NoId
    /\ b.dueDate # ""

\* task.assignedTo.toString() !== req.user.id && req.user.role !== 'admin' refuses
CanAct(user, assignee) == ~(assignee # user.id /\ user.role # "admin")

\* .populate(ref, 'name email'): null when the referenced user is gone
PopulateRef(us, u) ==
    IF u \in DOMAIN us THEN [kind |-> "user", _id |-> u]
    ELSE [kind |-> "null", _id |-> NoId]

\* the task with id `id` of task store ts, populated from user store us
Populate(ts, us, id) ==
    [_id |-> id, title |-> ts[id].title, description |-> ts[id].description,
     status |-> ts[id].status, priority |-> ts[id].priority, dueDate |-> ts[id].dueDate,
     assignedTo |-> PopulateRef(us, ts[id].assignedTo),
     createdBy |-> PopulateRef(us, ts[id].createdBy),
     documents |-> ts[id].documents, createdAt |-> ts[id].createdAt]

\* .sort({ createdAt: -1 }) of the tasks with ids in S
RECURSIVE SortDesc(_)
SortDesc(S) ==
    IF S = {} THEN <<>>
    ELSE LET m == CHOOSE x \in S : \A y \in S : tasks[y].createdAt <= tasks[x].createdAt
         IN  <<m>> \o SortDesc(S \ {m})

\* the populated, sorted result of a find over the tasks with ids in S
Found(S) ==
    LET order == SortDesc(S) IN [i \in 1..Len(order) |-> Populate(tasks, users, order[i])]

\* findByIdAndDelete
WithoutKey(f, k) == [x \in DOMAIN f \ {k} |-> f[x]]

Msg(m) == [message |-> m]

Before == [users |-> users, tasks |-> tasks, files |-> files, nextFile |-> nextFile]

\* A handled request: the route, the requester, the path parameters, the
\* body and the number of files sent, and the response (status and JSON body).
Response(op, user, id, docId, body, n, status, out) ==
    [op |-> op, user |-> user, id |-> id, docId |-> docId, body |-> body, n |-> n,
     status |-> status, out |-> out, before |-> Before]

\* ----------------------------------------------------------- client state
\* TaskModal before it is shown: useState([]) for files and existingDocuments.
\* toast is the notification the last handler raised, sent the last request
\* handleSubmit issued.
NotSent == [submitted |-> FALSE, editing |-> FALSE, files |-> <<>>, existing |-> <<>>]

FormClosed ==
    [open |-> FALSE, editing |-> FALSE, files |-> <<>>, existingDocuments |-> <<>>,
     toast |-> "", sent |-> NotSent]

\* Dashboard after mounting: no tasks fetched yet, filter 'all', empty search
\* term, sorted by due date
DashboardInit ==
    [tasks |-> <<>>, filter |-> "all", searchTerm |-> <<>>, sortBy |-> "dueDate"]

\* null, of a user or a token
Null == "null"

\* const initialState = { user: null, token: localStorage.getItem('token'),
\*                        isAuthenticated: false, loading: true }
initialState(stored) ==
    [user |-> Null, token |-> stored, isAuthenticated |-> FALSE, loading |-> TRUE]

\* the auth context before its provider has mounted: the reducer's state, the
\* token of local storage, the requests awaiting their response and the auth
\* operation that completed last
AuthInit(stored) ==
    [state |-> initialState(stored), stored |-> stored, pending |-> {},
     mounted |-> FALSE, last |-> "none"]

\* ------------------------------------------------------------------ state
Init ==
    /\ users = <<>>
    /\ tasks = <<>>
    /\ files = {}
    /\ nextUserId = 1
    /\ nextTaskId = 1
    /\ nextFile = 1
    /\ handled = 0
    /\ inflight = {}
    /\ form = FormClosed
    /\ dash = DashboardInit
    /\ auth = AuthInit(Null)
    /\ resp = Response("none", [id |-> NoId, role |-> "user"], NoId, NoId, NoBody, 0, 0, Msg(""))

\* ------------------------------------------------------ authentication gate
\* The routes, and the middleware of each in the order the route lists it.
Routes ==
    {"taskList", "taskListAll", "taskRead", "taskCreate", "taskUpdate", "taskDelete",
     "docDelete", "userList", "userRead", "userUpdate", "userDelete"}

\* Faulty variant: the upload step is listed before the gate.
Chain_UploadFirst(op) ==
    IF op \in {"taskCreate", "taskUpdate"} THEN <<"upload", "auth", "validate", "handler">>
    ELSE IF op = "userUpdate" THEN <<"auth", "validate", "handler">>
    ELSE <<"auth", "handler">>

\* router.post('/', [auth, upload.array('documents', 3), body(...), ...], handler)
Chain(op) ==
    IF op \in {"taskCreate", "taskUpdate"} THEN <<"auth", "upload", "validate", "handler">>
    ELSE IF op = "userUpdate" THEN <<"auth", "validate", "handler">>
    ELSE <<"auth", "handler">>

\* step a is listed before step b
Precedes(chain, a, b) ==
    \E i \in 1..Len(chain), j \in 1..Len(chain) : i < j /\ chain[i] = a /\ chain[j] = b

\* a request without a valid token: no identity is resolved
Anonymous == [id |-> NoId, role |-> "user"]

\* A request that fails the gate: the steps listed before the gate have run,
\* the gate answers 401 and the steps after it do not run.
Unauthenticated(op, id, n) ==
    /\ nextFile + n - 1 <= MaxFiles
    /\ n > 0 => op \in {"taskCreate", "taskUpdate"}
    /\ IF Precedes(Chain(op), "upload", "auth")
       THEN files' = Uploaded(n) /\ nextFile' = nextFile + n
       ELSE UNCHANGED <<files, nextFile>>
    /\ resp' = Response("unauthenticated", Anonymous, id, NoId, NoBody, n, 401,
                        [message |-> "No token, authorization denied", route |-> op])
    /\ UNCHANGED <<users, tasks, nextUserId, nextTaskId>>

\* ------------------------------------------------------------ user routes
\* User.findOne({ email }): the users that hold the address
HoldersOf(email) == {k \in DOMAIN users : users[k].email = email}

\* POST /api/auth/register: a new user record with the default role, unless
\* the address is held by a user already
Register ==
    /\ nextUserId <= MaxUsers
    /\ IF HoldersOf(RegEmail(nextUserId)) # {}
       THEN /\ resp' = Response("register", Anonymous, NoId, NoId, NoBody, 0, 400,
                                Msg("User already exists"))
            /\ UNCHANGED <<users, nextUserId>>
       ELSE /\ users' = (nextUserId :> [name |-> "n", email |-> RegEmail(nextUserId),
                                        password |-> "hash", role |-> "user"]) @@ users
            /\ nextUserId' = nextUserId + 1
            /\ resp' = Response("register", [id |-> nextUserId, role |-> "user"], NoId, NoId,
                                NoBody, 0, 200, Msg("token"))
    /\ UNCHANGED <<tasks, files, nextTaskId, nextFile>>

\* Faulty variant: the whole record is returned.
Select_All(id, u) ==
    [id |-> id, name |-> u.name, email |-> u.email, password |-> u.password,
     role |-> u.role]

\* .select('-password'): the record without its password
Select(id, u) == [id |-> id, name |-> u.name, email |-> u.email, role |-> u.role]

\* GET /api/users
UserList(user) ==
    /\ resp' = Response("userList", user, NoId, NoId, NoBody, 0, 200,
                        [k \in DOMAIN users |-> Select(k, users[k])])
    /\ UNCHANGED <<users, tasks, files, nextUserId, nextTaskId, nextFile>>

\* GET /api/users/:id
UserRead(user, id) ==
    /\ resp' = IF id \notin DOMAIN users
               THEN Response("userRead", user, id, NoId, NoBody, 0, 404, Msg("User not found"))
               ELSE Response("userRead", user, id, NoId, NoBody, 0, 200,
                             Select(id, users[id]))
    /\ UNCHANGED <<users, tasks, files, nextUserId, nextTaskId, nextFile>>

\* body('name').not().isEmpty(), body('email').isEmail()
UserBodyValid(b) == b.name # "" /\ b.email # ""

\* user.name = name; user.email = email; if (role) user.role = role
UpdatedUser(u, b) ==
    [u EXCEPT !.name = b.name, !.email = b.email,
              !.role = IF b.role # Absent THEN b.role ELSE u.role]

\* Faulty variant: the address is not looked up.
EmailTaken_Unchecked(id, email) == FALSE

\* if (email !== user.email) { existingUser = await User.findOne({ email }) }
EmailTaken(id, email) == email # users[id].email /\ HoldersOf(email) # {}

\* Faulty variant: only the user themselves or an admin may update a record.
UserUpdate_OwnerOnly(user, id, b) ==
    /\ IF ~UserBodyValid(b)
       THEN /\ resp' = Response("userUpdate", user, id, NoId, b, 0, 400, Msg("errors"))
            /\ UNCHANGED users
       ELSE IF id \notin DOMAIN users
       THEN /\ resp' = Response("userUpdate", user, id, NoId, b, 0, 404, Msg("User not found"))
            /\ UNCHANGED users
       ELSE IF user.id # id /\ user.role # "admin"
       THEN /\ resp' = Response("userUpdate", user, id, NoId, b, 0, 403, Msg("Access denied"))
            /\ UNCHANGED users
       ELSE IF EmailTaken(id, b.email)
       THEN /\ resp' = Response("userUpdate", user, id, NoId, b, 0, 400,
                                Msg("Email is already taken"))
            /\ UNCHANGED users
       ELSE /\ users' = [users EXCEPT ![id] = UpdatedUser(@, b)]
            /\ resp' = Response("userUpdate", user, id, NoId, b, 0, 200,
                                [id |-> id, name |-> b.name, email |-> b.email,
                                 role |-> UpdatedUser(users[id], b).role])
    /\ UNCHANGED <<tasks, files, nextUserId, nextTaskId, nextFile>>

\* PUT /api/users/:id
UserUpdate(user, id, b) ==
    /\ IF ~UserBodyValid(b)
       THEN /\ resp' = Response("userUpdate", user, id, NoId, b, 0, 400, Msg("errors"))
            /\ UNCHANGED users
       ELSE IF id \notin DOMAIN users
       THEN /\ resp' = Response("userUpdate", user, id, NoId, b, 0, 404, Msg("User not found"))
            /\ UNCHANGED users
       ELSE IF EmailTaken(id, b.email)
       THEN /\ resp' = Response("userUpdate", user, id, NoId, b, 0, 400,
                                Msg("Email is already taken"))
            /\ UNCHANGED users
       ELSE /\ users' = [users EXCEPT ![id] = UpdatedUser(@, b)]
            /\ resp' = Response("userUpdate", user, id, NoId, b, 0, 200,
                                [id |-> id, name |-> b.name, email |-> b.email,
                                 role |-> UpdatedUser(users[id], b).role])
    /\ UNCHANGED <<tasks, files, nextUserId, nextTaskId, nextFile>>

\* Faulty variant: the tasks assigned to the deleted user are deleted with it.
UserDelete_Cascade(user, id) ==
    /\ IF id \notin DOMAIN users
       THEN /\ resp' = Response("userDelete", user, id, NoId, NoBody, 0, 404, Msg("User not found"))
            /\ UNCHANGED <<users, tasks>>
       ELSE /\ users' = WithoutKey(users, id)
            /\ tasks' = [t \in {k \in DOMAIN tasks : tasks[k].assignedTo # id} |-> tasks[t]]
            /\ resp' = Response("userDelete", user, id, NoId, NoBody, 0, 200, Msg("User removed"))
    /\ UNCHANGED <<files, nextUserId, nextTaskId, nextFile>>

\* DELETE /api/users/:id
UserDelete(user, id) ==
    /\ IF id \notin DOMAIN users
       THEN /\ resp' = Response("userDelete", user, id, NoId, NoBody, 0, 404, Msg("User not found"))
            /\ UNCHANGED users
       ELSE /\ users' = WithoutKey(users, id)
            /\ resp' = Response("userDelete", user, id, NoId, NoBody, 0, 200, Msg("User removed"))
    /\ UNCHANGED <<tasks, files, nextUserId, nextTaskId, nextFile>>

\* ------------------------------------------------------------ task routes
\* Faulty variant: also selects the tasks the user created.
AssignedTo_OrCreated(u) ==
    {t \in DOMAIN tasks : tasks[t].assignedTo = u \/ tasks[t].createdBy = u}

\* Task.find({ assignedTo: req.user.id })
AssignedTo(u) == {t \in DOMAIN tasks : tasks[t].assignedTo = u}

\* GET /api/tasks
TaskList(user) ==
    /\ resp' = Response("taskList", user, NoId, NoId, NoBody, 0, 200, Found(AssignedTo(user.id)))
    /\ UNCHANGED <<users, tasks, files, nextUserId, nextTaskId, nextFile>>

\* Faulty variant: the role check is dropped.
AllowedAll_NoCheck(user) == TRUE

\* req.user.role !== 'admin' refuses
AllowedAll(user) == ~(user.role # "admin")

\* GET /api/tasks/all
TaskListAll(user) ==
    /\ resp' = IF ~AllowedAll(user)
               THEN Response("taskListAll", user, NoId, NoId, NoBody, 0, 403, Msg("Access denied"))
               ELSE Response("taskListAll", user, NoId, NoId, NoBody, 0, 200, Found(DOMAIN tasks))
    /\ UNCHANGED <<users, tasks, files, nextUserId, nextTaskId, nextFile>>

\* GET /api/tasks/:id
\* The access check reads task.assignedTo._id of the populated task before it
\* looks at the role: with a null assignedTo it throws, and the catch answers 500.
TaskRead(user, id) ==
    /\ resp' = IF id \notin DOMAIN tasks
               THEN Response("taskRead", user, id, NoId, NoBody, 0, 404, Msg("Task not found"))
               ELSE IF Populate(tasks, users, id).assignedTo.kind = "null"
               THEN Response("taskRead", user, id, NoId, NoBody, 0, 500, Msg("Server error"))
               ELSE IF ~CanAct(user, Populate(tasks, users, id).assignedTo._id)
               THEN Response("taskRead", user, id, NoId, NoBody, 0, 403, Msg("Access denied"))
               ELSE Response("taskRead", user, id, NoId, NoBody, 0, 200, Populate(tasks, users, id))
    /\ UNCHANGED <<users, tasks, files, nextUserId, nextTaskId, nextFile>>

\* Faulty variant: a supplied status is overwritten by the default.
NewTask_StatusReset(user, b, docs) ==
    [title |-> b.title, description |-> b.description,
     status |-> "pending",
     priority |-> IF b.priority = Absent THEN "medium" ELSE b.priority,
     dueDate |-> b.dueDate, assignedTo |-> b.assignedTo, createdBy |-> user.id,
     documents |-> docs, createdAt |-> nextTaskId]

\* new Task({title, description, status: status || 'pending',
\*           priority: priority || 'medium', dueDate, assignedTo, createdBy, documents})
NewTask(user, b, docs) ==
    [title |-> b.title, description |-> b.description,
     status |-> IF b.status = Absent THEN "pending" ELSE b.status,
     priority |-> IF b.priority = Absent THEN "medium" ELSE b.priority,
     dueDate |-> b.dueDate, assignedTo |-> b.assignedTo, createdBy |-> user.id,
     documents |-> docs, createdAt |-> nextTaskId]

\* Faulty variant: the assignee lookup is dropped.
UserExists_Unchecked(u) == TRUE

\* const assignedUser = await User.findById(assignedTo); if (!assignedUser) ...
UserExists(u) == u \in DOMAIN users

\* POST /api/tasks
TaskCreate(user, b, n) ==
    /\ nextFile + n - 1 <= MaxFiles
    /\ nextTaskId <= MaxTasks
    /\ files' = Uploaded(n)
    /\ nextFile' = nextFile + n
    /\ IF ~TaskBodyValid(b)
       THEN /\ resp' = Response("taskCreate", user, NoId, NoId, b, n, 400, Msg("errors"))
            /\ UNCHANGED <<tasks, nextTaskId>>
       ELSE IF b.assignedTo = BadId
       THEN \* User.findById throws a CastError; this catch answers 500
            /\ resp' = Response("taskCreate", user, NoId, NoId, b, n, 500, Msg("Server error"))
            /\ UNCHANGED <<tasks, nextTaskId>>
       ELSE IF ~UserExists(b.assignedTo)
       THEN /\ resp' = Response("taskCreate", user, NoId, NoId, b, n, 400,
                                Msg("Assigned user not found"))
            /\ UNCHANGED <<tasks, nextTaskId>>
       ELSE /\ tasks' = (nextTaskId :> NewTask(user, b, Documents(ReqFiles(n)))) @@ tasks
            /\ nextTaskId' = nextTaskId + 1
            /\ resp' = Response("taskCreate", user, NoId, NoId, b, n, 200,
                                Populate(tasks', users, nextTaskId))
    /\ UNCHANGED <<users, nextUserId>>

\* Faulty variant: the slice is dropped.
AllDocuments_NoCap(existing, new) == existing \o new

\* Faulty variant: the newest entries are kept instead of the oldest.
AllDocuments_Newest(existing, new) ==
    SubSeq(existing \o new,
           Len(existing \o new) - Min(Len(existing \o new), DocumentCap) + 1,
           Len(existing \o new))

\* [...task.documents, ...newDocuments].slice(0, 3)
AllDocuments(existing, new) == Slice(existing \o new, DocumentCap)

\* Faulty variant: the new assignee is recorded as the creator as well.
UpdatedTask_TakesOver(t, b, docs) ==
    [t EXCEPT !.title = b.title, !.description = b.description, !.status = b.status,
              !.priority = b.priority, !.dueDate = b.dueDate,
              !.assignedTo = b.assignedTo, !.createdBy = b.assignedTo,
              !.documents = docs]

\* task.title = title; ... task.assignedTo = assignedTo; task.documents = allDocuments
UpdatedTask(t, b, docs) ==
    [t EXCEPT !.title = b.title, !.description = b.description, !.status = b.status,
              !.priority = b.priority, !.dueDate = b.dueDate,
              !.assignedTo = b.assignedTo, !.documents = docs]

\* PUT /api/tasks/:id
TaskUpdate(user, id, b, n) ==
    /\ nextFile + n - 1 <= MaxFiles
    /\ files' = Uploaded(n)
    /\ nextFile' = nextFile + n
    /\ IF ~TaskBodyValid(b)
       THEN /\ resp' = Response("taskUpdate", user, id, NoId, b, n, 400, Msg("errors"))
            /\ UNCHANGED tasks
       ELSE IF id \notin DOMAIN tasks
       THEN /\ resp' = Response("taskUpdate", user, id, NoId, b, n, 404, Msg("Task not found"))
            /\ UNCHANGED tasks
       ELSE IF ~CanAct(user, tasks[id].assignedTo)
       THEN /\ resp' = Response("taskUpdate", user, id, NoId, b, n, 403, Msg("Access denied"))
            /\ UNCHANGED tasks
       ELSE IF b.assignedTo = BadId
       THEN \* User.findById throws a CastError of kind ObjectId: the catch answers 404
            /\ resp' = Response("taskUpdate", user, id, NoId, b, n, 404, Msg("Task not found"))
            /\ UNCHANGED tasks
       ELSE IF ~UserExists(b.assignedTo)
       THEN /\ resp' = Response("taskUpdate", user, id, NoId, b, n, 400,
                                Msg("Assigned user not found"))
            /\ UNCHANGED tasks
       ELSE /\ tasks' = [tasks EXCEPT ![id] =
                  UpdatedTask(@, b, AllDocuments(@.documents, Documents(ReqFiles(n))))]
            /\ resp' = Response("taskUpdate", user, id, NoId, b, n, 200,
                                Populate(tasks', users, id))
    /\ UNCHANGED <<users, nextUserId, nextTaskId>>

\* Faulty variant: no file is unlinked.
Unlinked_Nothing(store, docs) == store

\* Faulty variant: the whole upload directory is cleared.
Unlinked_Directory(store, docs) == {}

\* docs.forEach(doc => { if (fs.existsSync(doc.path)) fs.unlinkSync(doc.path) })
Unlinked(store, docs) == store \ Paths(docs)

\* DELETE /api/tasks/:id
TaskDelete(user, id) ==
    /\ IF id \notin DOMAIN tasks
       THEN /\ resp' = Response("taskDelete", user, id, NoId, NoBody, 0, 404, Msg("Task not found"))
            /\ UNCHANGED <<tasks, files>>
       ELSE IF ~CanAct(user, tasks[id].assignedTo)
       THEN /\ resp' = Response("taskDelete", user, id, NoId, NoBody, 0, 403, Msg("Access denied"))
            /\ UNCHANGED <<tasks, files>>
       ELSE /\ files' = Unlinked(files, tasks[id].documents)
            /\ tasks' = WithoutKey(tasks, id)
            /\ resp' = Response("taskDelete", user, id, NoId, NoBody, 0, 200, Msg("Task removed"))
    /\ UNCHANGED <<users, nextUserId, nextTaskId, nextFile>>

\* task.documents.id(docId): the subdocuments with that _id (none or one)
DocumentsById(docs, docId) == SelectSeq(docs, LAMBDA d : d.id = docId)

\* Faulty variant: the first entry is removed whatever the id.
Pull_First(docs, docId) == Tail(docs)

\* task.documents.pull(docId)
Pull(docs, docId) == SelectSeq(docs, LAMBDA d : d.id # docId)

\* DELETE /api/tasks/:id/documents/:docId
DocDelete(user, id, docId) ==
    /\ IF id = BadId
       THEN \* Task.findById throws a CastError; this catch answers 500 whatever the error
            /\ resp' = Response("docDelete", user, id, docId, NoBody, 0, 500, Msg("Server error"))
            /\ UNCHANGED <<tasks, files>>
       ELSE IF id \notin DOMAIN tasks
       THEN /\ resp' = Response("docDelete", user, id, docId, NoBody, 0, 404, Msg("Task not found"))
            /\ UNCHANGED <<tasks, files>>
       ELSE IF ~CanAct(user, tasks[id].assignedTo)
       THEN /\ resp' = Response("docDelete", user, id, docId, NoBody, 0, 403, Msg("Access denied"))
            /\ UNCHANGED <<tasks, files>>
       ELSE IF DocumentsById(tasks[id].documents, docId) = <<>>
       THEN /\ resp' = Response("docDelete", user, id, docId, NoBody, 0, 404,
                                Msg("Document not found"))
            /\ UNCHANGED <<tasks, files>>
       ELSE /\ files' = Unlinked(files, DocumentsById(tasks[id].documents, docId))
            /\ tasks' = [tasks EXCEPT ![id].documents = Pull(@, docId)]
            /\ resp' = Response("docDelete", user, id, docId, NoBody, 0, 200,
                                Msg("Document removed"))
    /\ UNCHANGED <<users, nextUserId, nextTaskId, nextFile>>

\* ---------------------------------------------------------- specification
\* one more request arrives, while the run is within its bound
Count == handled < MaxRequests /\ handled' = handled + 1 /\ UNCHANGED <<form, dash, auth>>

\* a request that is handled from its arrival to its response in one step
Handle == Count /\ UNCHANGED inflight

Next ==
    \/ Handle /\ Register
    \/ \E user \in Requesters : Handle /\ UserList(user)
    \/ \E user \in Requesters, id \in UserIdInputs : Handle /\ UserRead(user, id)
    \/ \E user \in Requesters, id \in UserIdInputs, b \in UserBodies :
          Handle /\ UserUpdate(user, id, b)
    \/ \E user \in Requesters, id \in UserIdInputs : Handle /\ UserDelete(user, id)
    \/ \E user \in Requesters : Handle /\ TaskList(user)
    \/ \E user \in Requesters : Handle /\ TaskListAll(user)
    \/ \E user \in Requesters, id \in TaskIdInputs : Handle /\ TaskRead(user, id)
    \/ \E user \in Requesters, b \in TaskBodies, n \in FileCounts :
          Handle /\ TaskCreate(user, b, n)
    \/ \E user \in Requesters, id \in TaskIdInputs, b \in TaskBodies, n \in FileCounts :
          Handle /\ TaskUpdate(user, id, b, n)
    \/ \E user \in Requesters, id \in TaskIdInputs : Handle /\ TaskDelete(user, id)
    \/ \E user \in Requesters, id \in TaskIdInputs, docId \in DocIdInputs :
          Handle /\ DocDelete(user, id, docId)
    \/ \E op \in Routes, n \in FileCounts : Handle /\ Unauthenticated(op, 1, n)

Spec == Init /\ [][Next]_vars

\* ---------------------------------------------------- interleaved requests
\* A handler that reaches `await task.save()` is suspended there: it has read
\* the task with Task.findById, and other requests run before its write.
Pending(op, user, id, docId, b, n, docs) ==
    [op |-> op, user |-> user, id |-> id, docId |-> docId, body |-> b, n |-> n,
     docs |-> docs, new |-> Documents(ReqFiles(n)), before |-> Before]

\* The response of a delete that was suspended, with the stores as they were
\* when the request arrived.
Answer(p, status, out) ==
    [Response(p.op, p.user, p.id, p.docId, p.body, p.n, status, out)
        EXCEPT !.before = p.before]

\* PUT /api/tasks/:id passes the validators, both lookups and the access check
UpdatePasses(user, id, b) ==
    /\ TaskBodyValid(b)
    /\ id \in DOMAIN tasks
    /\ CanAct(user, tasks[id].assignedTo)
    /\ b.assignedTo # BadId
    /\ UserExists(b.assignedTo)

\* PUT /api/tasks/:id up to its save: refused at once, or suspended holding the
\* attachment list it read
UpdateBegin(user, id, b, n) ==
    IF UpdatePasses(user, id, b)
    THEN /\ Cardinality(inflight) < MaxInflight
         /\ nextFile + n - 1 <= MaxFiles
         /\ files' = Uploaded(n)
         /\ nextFile' = nextFile + n
         /\ inflight' = inflight \cup
                {Pending("taskUpdate", user, id, NoId, b, n, tasks[id].documents)}
         /\ UNCHANGED <<users, tasks, nextUserId, nextTaskId, resp>>
    ELSE TaskUpdate(user, id, b, n) /\ UNCHANGED inflight

\* task.documents = allDocuments marks the array as changed only when
\* allDocuments differs from the list that was read
ArrayModified(p) == AllDocuments(p.docs, p.new) # p.docs

\* Variant: the schema keeps a version key, and a write of the whole array is
\* refused when another request changed the array since it was read.
SaveOutcomes_Versioned(p) ==
    IF p.id \notin DOMAIN tasks THEN {FALSE}
    ELSE IF tasks[p.id].documents = p.docs \/ ~ArrayModified(p) THEN {TRUE}
    ELSE {FALSE}

\* Variant: the schema keeps no version key, and every write is accepted.
SaveOutcomes_Unversioned(p) ==
    IF p.id \notin DOMAIN tasks THEN {FALSE} ELSE {TRUE}

\* task.save() of an update writes the whole attachment array when it was
\* changed. The write goes through when the stored array is the one that was
\* read; when another request changed it meanwhile, it goes through or fails
\* with a VersionError, as the schema's versioning decides (models/Task.js); a
\* deleted task is not written.
SaveOutcomes(p) ==
    IF p.id \notin DOMAIN tasks THEN {FALSE}
    ELSE IF tasks[p.id].documents = p.docs \/ ~ArrayModified(p) THEN {TRUE}
    ELSE {TRUE, FALSE}

\* PUT /api/tasks/:id from its save to its response
UpdateSave(p) ==
    /\ p.op = "taskUpdate"
    /\ inflight' = inflight \ {p}
    /\ \E saved \in SaveOutcomes(p) :
          IF saved
          THEN /\ tasks' = [tasks EXCEPT ![p.id] =
                     UpdatedTask(@, p.body,
                                 IF ArrayModified(p) THEN AllDocuments(p.docs, p.new)
                                 ELSE @.documents)]
               /\ resp' = Response("taskUpdate", p.user, p.id, NoId, p.body, p.n, 200,
                                   Populate(tasks', users, p.id))
          ELSE /\ resp' = Response("taskUpdate", p.user, p.id, NoId, p.body, p.n, 500,
                                   Msg("Server error"))
               /\ UNCHANGED tasks
    /\ UNCHANGED <<users, files, nextUserId, nextTaskId, nextFile, handled, form, dash, auth>>

\* Faulty variant: unlinkSync is called without the existsSync test.
Existing_Unguarded(store, docs) == docs

\* if (fs.existsSync(doc.path)): the attachments whose file is in the store
Existing(store, docs) == SelectSeq(docs, LAMBDA d : d.path \in store)

\* fs.unlinkSync throws for a path that holds no file
UnlinkThrows(store, docs) == \E i \in 1..Len(docs) : docs[i].path \notin store

\* DELETE /api/tasks/:id/documents/:docId finds the task and the document
DocDeletePasses(user, id, docId) ==
    /\ id # BadId
    /\ id \in DOMAIN tasks
    /\ CanAct(user, tasks[id].assignedTo)
    /\ DocumentsById(tasks[id].documents, docId) # <<>>

\* DELETE /api/tasks/:id/documents/:docId up to its save: refused at once, or
\* suspended after unlinking the file
DocDeleteBegin(user, id, docId) ==
    IF DocDeletePasses(user, id, docId)
    THEN /\ Cardinality(inflight) < MaxInflight
         /\ IF UnlinkThrows(files, Existing(files, DocumentsById(tasks[id].documents, docId)))
            THEN /\ resp' = Response("docDelete", user, id, docId, NoBody, 0, 500,
                                     Msg("Server error"))
                 /\ UNCHANGED <<files, inflight>>
            ELSE /\ files' = Unlinked(files, DocumentsById(tasks[id].documents, docId))
                 /\ inflight' = inflight \cup
                        {Pending("docDelete", user, id, docId, NoBody, 0, tasks[id].documents)}
                 /\ UNCHANGED resp
         /\ UNCHANGED <<users, tasks, nextUserId, nextTaskId, nextFile>>
    ELSE DocDelete(user, id, docId) /\ UNCHANGED inflight

\* task.save() of an attachment delete pulls the entry from the stored array
DocDeleteSave(p) ==
    /\ p.op = "docDelete"
    /\ inflight' = inflight \ {p}
    /\ IF p.id \in DOMAIN tasks
       THEN /\ tasks' = [tasks EXCEPT ![p.id].documents = Pull(@, p.docId)]
            /\ resp' = Answer(p, 200, Msg("Document removed"))
       ELSE /\ resp' = Answer(p, 500, Msg("Server error"))
            /\ UNCHANGED tasks
    /\ UNCHANGED <<users, files, nextUserId, nextTaskId, nextFile, handled, form, dash, auth>>

NextConc ==
    \/ Handle /\ Register
    \/ \E user \in Requesters, b \in TaskBodies, n \in FileCounts :
          Handle /\ TaskCreate(user, b, n)
    \/ \E user \in Requesters, id \in TaskIdInputs, b \in TaskBodies, n \in FileCounts :
          Count /\ UpdateBegin(user, id, b, n)
    \/ \E p \in inflight : UpdateSave(p)
    \/ \E user \in Requesters, id \in TaskIdInputs, docId \in DocIdInputs :
          Count /\ DocDeleteBegin(user, id, docId)
    \/ \E p \in inflight : DocDeleteSave(p)

SpecConc == Init /\ [][NextConc]_vars

\* ------------------------------------------------ interleaved user updates
\* PUT /api/users/:id passes the validators, the lookup and the email check
UserUpdatePasses(id, b) ==
    /\ UserBodyValid(b)
    /\ id \in DOMAIN users
    /\ ~EmailTaken(id, b.email)

\* PUT /api/users/:id up to `await user.save()`: refused at once, or suspended
\* with the email check passed
UserUpdateBegin(user, id, b) ==
    IF UserUpdatePasses(id, b)
    THEN /\ Cardinality(inflight) < MaxInflight
         /\ inflight' = inflight \cup {Pending("userUpdate", user, id, NoId, b, 0, <<>>)}
         /\ UNCHANGED <<users, tasks, files, nextUserId, nextTaskId, nextFile, resp>>
    ELSE UserUpdate(user, id, b) /\ UNCHANGED inflight

\* Faulty variant: the write looks the address up again and refuses a held one.
WriteRefused_Rechecked(p) == EmailTaken(p.id, p.body.email)

\* user.save() writes the record whatever the other records hold
WriteRefused(p) == FALSE

\* PUT /api/users/:id from its save to its response
UserUpdateSave(p) ==
    /\ p.op = "userUpdate"
    /\ p.id \in DOMAIN users
    /\ inflight' = inflight \ {p}
    /\ IF WriteRefused(p)
       THEN /\ resp' = Answer(p, 500, Msg("Server error"))
            /\ UNCHANGED users
       ELSE /\ users' = [users EXCEPT ![p.id] = UpdatedUser(@, p.body)]
            /\ resp' = Answer(p, 200, [id |-> p.id, name |-> p.body.name,
                                       email |-> p.body.email,
                                       role |-> UpdatedUser(users[p.id], p.body).role])
    /\ UNCHANGED <<tasks, files, nextUserId, nextTaskId, nextFile, handled, form, dash, auth>>

NextRace ==
    \/ Handle /\ Register
    \/ \E user \in Requesters, id \in UserIdInputs, b \in UserBodies :
          Count /\ UserUpdateBegin(user, id, b)
    \/ \E p \in inflight : UserUpdateSave(p)

SpecRace == Init /\ [][NextRace]_vars

\* ------------------------------------------------- deletions, step by step
\* DELETE /api/tasks/:id finds the task and passes the access check
TaskDeletePasses(user, id) ==
    /\ id \in DOMAIN tasks
    /\ CanAct(user, tasks[id].assignedTo)

\* DELETE /api/tasks/:id up to `await Task.findByIdAndDelete`: refused at
\* once, or suspended after unlinking the files of the task's attachments
TaskDeleteBegin(user, id) ==
    IF TaskDeletePasses(user, id)
    THEN /\ Cardinality(inflight) < MaxInflight
         /\ IF UnlinkThrows(files, Existing(files, tasks[id].documents))
            THEN /\ resp' = Response("taskDelete", user, id, NoId, NoBody, 0, 500,
                                     Msg("Server error"))
                 /\ UNCHANGED <<files, inflight>>
            ELSE /\ files' = Unlinked(files, tasks[id].documents)
                 /\ inflight' = inflight \cup
                        {Pending("taskDelete", user, id, NoId, NoBody, 0, tasks[id].documents)}
                 /\ UNCHANGED resp
         /\ UNCHANGED <<users, tasks, nextUserId, nextTaskId, nextFile>>
    ELSE TaskDelete(user, id) /\ UNCHANGED inflight

\* Task.findByIdAndDelete removes the record, or finds none and removes nothing
TaskDeleteSave(p) ==
    /\ p.op = "taskDelete"
    /\ inflight' = inflight \ {p}
    /\ tasks' = WithoutKey(tasks, p.id)
    /\ resp' = Answer(p, 200, Msg("Task removed"))
    /\ UNCHANGED <<users, files, nextUserId, nextTaskId, nextFile, handled, form, dash, auth>>

NextDel ==
    \/ Handle /\ Register
    \/ \E user \in Requesters, b \in TaskBodies, n \in FileCounts :
          Handle /\ TaskCreate(user, b, n)
    \/ \E user \in Requesters, id \in TaskIdInputs : Count /\ TaskDeleteBegin(user, id)
    \/ \E p \in inflight : TaskDeleteSave(p)
    \/ \E user \in Requesters, id \in TaskIdInputs, docId \in DocIdInputs :
          Count /\ DocDeleteBegin(user, id, docId)
    \/ \E p \in inflight : DocDeleteSave(p)

SpecDel == Init /\ [][NextDel]_vars

\* ------------------------------------------- deletions that fail half way
\* the attachments whose files a suspended delete has unlinked
Unlinking(p) == IF p.op = "taskDelete" THEN p.docs ELSE DocumentsById(p.docs, p.docId)

\* Faulty variant: the catch block puts the unlinked files back.
Caught_Restored(store, docs) == store \cup Paths(docs)

\* catch (error) { console.error(error.message); res.status(500) }: the
\* content store is left as the file removal left it
Caught(store, docs) == store

\* the awaited metadata removal (Task.findByIdAndDelete, task.save()) rejects:
\* the catch block answers 500
MetadataRemovalFails(p) ==
    /\ p.op \in {"taskDelete", "docDelete"}
    /\ inflight' = inflight \ {p}
    /\ files' = Caught(files, Unlinking(p))
    /\ resp' = Answer(p, 500, Msg("Server error"))
    /\ UNCHANGED <<users, tasks, nextUserId, nextTaskId, nextFile, handled, form, dash, auth>>

NextFail ==
    \/ Handle /\ Register
    \/ \E user \in Requesters, b \in TaskBodies, n \in FileCounts :
          Handle /\ TaskCreate(user, b, n)
    \/ \E user \in Requesters, id \in TaskIdInputs : Count /\ TaskDeleteBegin(user, id)
    \/ \E p \in inflight : TaskDeleteSave(p)
    \/ \E user \in Requesters, id \in TaskIdInputs, docId \in DocIdInputs :
          Count /\ DocDeleteBegin(user, id, docId)
    \/ \E p \in inflight : DocDeleteSave(p)
    \/ \E p \in inflight : MetadataRemovalFails(p)

SpecFail == Init /\ [][NextFail]_vars

\* ------------------------------------------------------------ properties
\* the handled request named a task that existed when it arrived
OnExistingTask == resp.id \in DOMAIN resp.before.tasks

StoresUnchanged ==
    /\ users = resp.before.users
    /\ tasks = resp.before.tasks
    /\ files = resp.before.files

\* the ids of the tasks of a list response
ListedIds == {resp.out[i]._id : i \in 1..Len(resp.out)}

\* C3: a requester whose role is not admin never receives a task list from
\* GET /api/tasks/all: the request fails with 403 and returns no task.
C3_AllTasksAdminOnly ==
    (resp.op = "taskListAll" /\ resp.user.role # "admin")
        => (resp.status = 403 /\ resp.out = Msg("Access denied"))

\* C3 witness: a non-admin asked for all tasks while tasks existed and was refused.
C3_Witness ==
    /\ resp.op = "taskListAll"
    /\ resp.user.role # "admin"
    /\ resp.status = 403
    /\ DOMAIN tasks # {}

\* C4: GET /api/tasks returns exactly the stored tasks whose assignee is the
\* requester, each once: none assigned to another user, none of the requester's omitted.
C4_MyTasksExactlyAssigned ==
    resp.op = "taskList" =>
        /\ resp.status = 200
        /\ ListedIds = {t \in DOMAIN tasks : tasks[t].assignedTo = resp.user.id}
        /\ Len(resp.out) = Cardinality(ListedIds)

\* C4 witness: an admin who created a task assigned to someone else lists their
\* tasks: the list leaves that task out.
C4_Witness ==
    /\ resp.op = "taskList"
    /\ resp.user.role = "admin"
    /\ \E t \in DOMAIN tasks :
          /\ tasks[t].createdBy = resp.user.id
          /\ tasks[t].assignedTo # resp.user.id
          /\ t \notin ListedIds

\* C4 second case, reached as well: the list holds a task of the requester.
C4_ListedSome ==
    /\ resp.op = "taskList"
    /\ Len(resp.out) > 0

\* the task a request named, as it was when the request arrived
TaskBefore == resp.before.tasks[resp.id]

\* the request passed the validators, named an existing task the requester
\* may act on, and named an existing user as the assignee
UpdateAccepted ==
    /\ TaskBodyValid(resp.body)
    /\ OnExistingTask
    /\ (resp.user.role = "admin" \/ TaskBefore.assignedTo = resp.user.id)
    /\ resp.body.assignedTo \in DOMAIN resp.before.users

\* the documents of the files this request uploaded, in upload order
NewDocumentsOfRequest ==
    [i \in 1..resp.n |-> [id |-> resp.before.nextFile + i - 1,
                          path |-> resp.before.nextFile + i - 1]]

\* C5: every stored task has at most 3 attachment entries, after any sequence
\* or interleaving of create, update and attachment-delete requests.
C5_AtMostThreeAttachments ==
    \A t \in DOMAIN tasks : Len(tasks[t].documents) <= 3

\* C5 witness: two updates that each uploaded a file were interleaved; the
\* second save found 3 attachments stored, replaced the list it had not read,
\* and the task holds 3.
C5_Witness ==
    /\ resp.op = "taskUpdate"
    /\ resp.status = 200
    /\ resp.n > 0
    /\ OnExistingTask
    /\ Len(TaskBefore.documents) = 3
    /\ tasks[resp.id].documents # TaskBefore.documents
    /\ Len(tasks[resp.id].documents) = 3

\* C6: an update whose existing+new attachments exceed 3 is not rejected for
\* it, and leaves the task with exactly the first 3 of (existing, in stored
\* order) followed by (new, in upload order): every existing one is retained.
C6_UpdateKeepsOldestThree ==
    (resp.op = "taskUpdate" /\ UpdateAccepted
        /\ Len(TaskBefore.documents) + resp.n > 3)
    => /\ resp.status = 200
       /\ tasks[resp.id].documents =
             SubSeq(TaskBefore.documents \o NewDocumentsOfRequest, 1, 3)
       /\ \A i \in 1..Len(TaskBefore.documents) :
             tasks[resp.id].documents[i] = TaskBefore.documents[i]

\* C6 witness: an update added 2 files to a task holding 2: the first new file
\* is kept, the second is dropped.
C6_Witness ==
    /\ resp.op = "taskUpdate"
    /\ resp.status = 200
    /\ Len(TaskBefore.documents) = 2
    /\ resp.n = 2
    /\ Len(tasks[resp.id].documents) = 3
    /\ tasks[resp.id].documents[3].id = resp.before.nextFile

\* C7: after a successful task deletion the task record is gone and no file
\* remains at the storage path of any attachment the task listed.
C7_DeleteRemovesTaskAndFiles ==
    (resp.op = "taskDelete" /\ resp.status = 200)
    => /\ resp.id \notin DOMAIN tasks
       /\ \A i \in 1..Len(TaskBefore.documents) :
             TaskBefore.documents[i].path \notin files

\* C7 witness: a task with two attachments, both files stored, was deleted.
C7_Witness ==
    /\ resp.op = "taskDelete"
    /\ resp.status = 200
    /\ Len(TaskBefore.documents) = 2
    /\ \A i \in 1..2 : TaskBefore.documents[i].path \in resp.before.files

\* the positions of the attachment a document deletion named
Named == {i \in 1..Len(TaskBefore.documents) : TaskBefore.documents[i].id = resp.docId}

\* the sequence s without its i-th element
RemoveAt(s, i) == SubSeq(s, 1, i - 1) \o SubSeq(s, i + 1, Len(s))

\* C8: a successful deletion of one attachment removes exactly that entry and
\* its file: the task remains with its other fields, the other entries remain
\* in the same order, the other files remain, and nothing else changes.
C8_DocDeleteRemovesOnlyThat ==
    (resp.op = "docDelete" /\ resp.status = 200)
    => /\ Cardinality(Named) = 1
       /\ resp.id \in DOMAIN tasks
       /\ \A i \in Named :
             /\ tasks[resp.id] =
                   [TaskBefore EXCEPT !.documents = RemoveAt(TaskBefore.documents, i)]
             /\ files = resp.before.files \ {TaskBefore.documents[i].path}
       /\ \A t \in DOMAIN resp.before.tasks \ {resp.id} :
             t \in DOMAIN tasks /\ tasks[t] = resp.before.tasks[t]
       /\ DOMAIN tasks = DOMAIN resp.before.tasks
       /\ users = resp.before.users

\* C8 witness: the middle one of three attachments was deleted.
C8_Witness ==
    /\ resp.op = "docDelete"
    /\ resp.status = 200
    /\ Len(TaskBefore.documents) = 3
    /\ TaskBefore.documents[2].id = resp.docId
    /\ Len(tasks[resp.id].documents) = 2

\* C9: a task-create request whose assignee id matches no existing user fails
\* with 400 and leaves the set of stored task records unchanged.
C9_UnknownAssigneeRefused ==
    (resp.op = "taskCreate" /\ TaskBodyValid(resp.body)
        /\ resp.body.assignedTo \notin DOMAIN resp.before.users)
    => /\ resp.status = 400
       /\ tasks = resp.before.tasks

\* C9, for an assignee id that is a well-formed identifier: the create fails
\* with 400 and leaves the set of stored task records unchanged.
C9_CreateUnknownAssignee ==
    (resp.op = "taskCreate" /\ TaskBodyValid(resp.body)
        /\ resp.body.assignedTo # BadId
        /\ resp.body.assignedTo \notin DOMAIN resp.before.users)
    => /\ resp.status = 400
       /\ tasks = resp.before.tasks

\* C9 witness: a valid create named a once-registered, since deleted user as assignee.
C9_Witness ==
    /\ resp.op = "taskCreate"
    /\ resp.status = 400
    /\ TaskBodyValid(resp.body)
    /\ resp.body.assignedTo \notin DOMAIN resp.before.users
    /\ resp.body.assignedTo < nextUserId
    /\ resp.body.assignedTo # BadId

\* C1: for a user who is neither the task's assignee nor an admin, reading by id,
\* updating, deleting and removing an attachment of an existing task are all
\* refused with 403, and leave the task store and the content store unchanged.
\* (An update is taken with a body that passes the validators, which run first.)
C1_NonAssigneeRefused ==
    (/\ resp.op \in {"taskRead", "taskUpdate", "taskDelete", "docDelete"}
     /\ OnExistingTask
     /\ resp.user.role # "admin"
     /\ TaskBefore.assignedTo # resp.user.id
     /\ (resp.op = "taskUpdate" => TaskBodyValid(resp.body)))
    => /\ resp.status = 403
       /\ tasks = resp.before.tasks
       /\ files = resp.before.files

\* C2: an admin can read by id and delete any existing task, whoever it is
\* assigned to: the read answers 200 with the task, the delete answers 200 and
\* the task is gone.
C2_AdminReadsAndDeletesAny ==
    (resp.user.role = "admin" /\ OnExistingTask)
    => /\ resp.op = "taskRead" =>
             (resp.status = 200
              /\ resp.out = Populate(resp.before.tasks, resp.before.users, resp.id))
       /\ resp.op = "taskDelete" =>
             (resp.status = 200 /\ resp.id \notin DOMAIN tasks)

\* The request named an identifier that no record carries.
NoRecordMatches ==
    \/ /\ resp.op \in {"taskRead", "taskUpdate", "taskDelete", "docDelete"}
       /\ resp.id \notin DOMAIN resp.before.tasks
       /\ (resp.op = "taskUpdate" => TaskBodyValid(resp.body))
    \/ /\ resp.op = "docDelete"
       /\ OnExistingTask
       /\ (resp.user.role = "admin" \/ TaskBefore.assignedTo = resp.user.id)
       /\ \A i \in 1..Len(TaskBefore.documents) : TaskBefore.documents[i].id # resp.docId
    \/ /\ resp.op \in {"userRead", "userUpdate", "userDelete"}
       /\ resp.id \notin DOMAIN resp.before.users
       /\ (resp.op = "userUpdate" => UserBodyValid(resp.body))

\* C10: every task or user operation that takes an identifier fails with 404
\* when no record matches it, and leaves the three stores unchanged.
C10_NotFoundLeavesStores ==
    NoRecordMatches => (resp.status = 404 /\ StoresUnchanged)

\* a required field of the body is absent or empty
RequiredFieldMissing(b) ==
    b.title = "" \/ b.description = "" \/ b.assignedTo = NoId \/ b.dueDate = ""

\* C11: a task create or update in which title, description, assignedTo or
\* dueDate is absent or empty fails with 400, and no task record is created or
\* modified by it.
C11_MissingFieldRefused ==
    (resp.op \in {"taskCreate", "taskUpdate"} /\ RequiredFieldMissing(resp.body))
    => /\ resp.status = 400
       /\ tasks = resp.before.tasks

\* C11 witness: the assignee's update of an existing task came without a
\* dueDate and was refused.
C11_Witness ==
    /\ resp.op = "taskUpdate"
    /\ OnExistingTask
    /\ TaskBefore.assignedTo = resp.user.id
    /\ resp.body.dueDate = ""
    /\ resp.body.title # ""
    /\ resp.status = 400

\* the request created a task: the record stored for it
Created == tasks[resp.out._id]

CreateSucceeded == resp.op = "taskCreate" /\ resp.status = 200

\* C13: a task created without a status gets status pending, one created
\* without a priority gets priority medium; a supplied status or priority is
\* stored as given.
C13_CreateDefaults ==
    CreateSucceeded
    => /\ resp.out._id \in DOMAIN tasks
       /\ resp.out._id \notin DOMAIN resp.before.tasks
       /\ (resp.body.status = Absent => Created.status = "pending")
       /\ (resp.body.status # Absent => Created.status = resp.body.status)
       /\ (resp.body.priority = Absent => Created.priority = "medium")
       /\ (resp.body.priority # Absent => Created.priority = resp.body.priority)

\* C13 witness: a create that supplied a status and no priority stored the
\* status as given and the default priority.
C13_Witness ==
    /\ CreateSucceeded
    /\ resp.body.status = "in-progress"
    /\ resp.body.priority = Absent
    /\ Created.status = "in-progress"
    /\ Created.priority = "medium"

\* C14: deleting a user changes nothing in the task store: every task, those
\* assigned to or created by the deleted user included, remains with its
\* references and its attachments unchanged.
C14_UserDeleteKeepsTasks ==
    resp.op = "userDelete" => (tasks = resp.before.tasks /\ files = resp.before.files)

\* C14 witness: a user was deleted while a task with attachments was assigned
\* to it and created by it; the task still names the user, who is gone.
C14_Witness ==
    /\ resp.op = "userDelete"
    /\ resp.status = 200
    /\ resp.id \notin DOMAIN users
    /\ \E t \in DOMAIN tasks :
          /\ tasks[t].assignedTo = resp.id
          /\ tasks[t].createdBy = resp.id
          /\ Len(tasks[t].documents) > 0

DeleteOps == {"taskDelete", "docDelete"}

\* the handled delete named, on arrival, an existing task the requester may
\* act on and (an attachment delete) an attachment the task listed
DeleteAccepted ==
    /\ resp.op \in DeleteOps
    /\ OnExistingTask
    /\ CanAct(resp.user, TaskBefore.assignedTo)
    /\ (resp.op = "docDelete" => DocumentsById(TaskBefore.documents, resp.docId) # <<>>)

\* the attachments the handled delete is to remove
Targets ==
    IF resp.op = "taskDelete" THEN TaskBefore.documents
    ELSE DocumentsById(TaskBefore.documents, resp.docId)

\* the stored task lists the attachment
Listed(t, d) == t \in DOMAIN tasks /\ \E i \in 1..Len(tasks[t].documents) : tasks[t].documents[i] = d

\* a delete removes metadata in this step only of attachments whose file is
\* absent from the content store already
FileRemovedFirst ==
    (resp'.op \in DeleteOps /\ tasks' # tasks)
    => \A t \in DOMAIN tasks : \A i \in 1..Len(tasks[t].documents) :
          (t \notin DOMAIN tasks' \/ tasks'[t].documents # tasks[t].documents)
          => (\/ tasks[t].documents[i].path \notin files
              \/ /\ t \in DOMAIN tasks'
                 /\ \E j \in 1..Len(tasks'[t].documents) :
                       tasks'[t].documents[j] = tasks[t].documents[i])

\* an accepted delete succeeds and removes the metadata, whether or not the
\* files were in the content store when it arrived
AbsentFileTolerated ==
    (DeleteAccepted /\ (resp.op = "docDelete" => resp.id \in DOMAIN tasks))
    => /\ resp.status = 200
       /\ \A i \in 1..Len(Targets) : ~Listed(resp.id, Targets[i])
       /\ Paths(Targets) \cap files = {}

\* C17: in task deletion and in attachment deletion the file is removed before
\* the metadata, and an attachment whose file is already absent from the
\* content store does not make the deletion fail: the metadata is removed and
\* the request succeeds.
C17_FileFirstAbsentTolerated ==
    [][FileRemovedFirst]_vars /\ []AbsentFileTolerated

\* C17 witness: a task was deleted with success although the file of one of
\* its listed attachments was absent when the request arrived.
C17_Witness ==
    /\ resp.op = "taskDelete"
    /\ DeleteAccepted
    /\ resp.status = 200
    /\ resp.id \notin DOMAIN tasks
    /\ \E i \in 1..Len(TaskBefore.documents) :
          TaskBefore.documents[i].path \notin resp.before.files
    /\ \E i \in 1..Len(TaskBefore.documents) :
          TaskBefore.documents[i].path \in resp.before.files

\* an accepted delete did not succeed
DeleteFailed == DeleteAccepted /\ resp.status # 200

\* a delete that answers 500 removes no metadata in the step that answers
FailureKeepsMetadata ==
    (resp' # resp /\ resp'.op \in DeleteOps /\ resp'.status = 500) => tasks' = tasks

\* after a failed delete the unlinked files are not back in the content store
FailureKeepsFilesRemoved ==
    DeleteFailed => (resp.status = 500 /\ Paths(Targets) \cap files = {})

\* C18: file deletion and metadata deletion are not atomic and not rolled
\* back: a deletion that fails after its file removal and before its metadata
\* removal answers 500, removes no metadata and restores no file, so a task
\* can list an attachment whose file no longer exists.
C18_FailedDeleteNotRolledBack ==
    [][FailureKeepsMetadata]_vars /\ []FailureKeepsFilesRemoved

\* C18 witness: an attachment delete answered 500 after unlinking a file that
\* was in the store when it arrived; the task still lists the attachment.
C18_Witness ==
    /\ resp.op = "docDelete"
    /\ DeleteFailed
    /\ resp.status = 500
    /\ Targets[1].path \in resp.before.files
    /\ Targets[1].path \notin files
    /\ Listed(resp.id, Targets[1])

\* C12: a request that fails the authentication gate has no effect on the task
\* store, the user store or the content store: the gate runs before the upload
\* step, the validators, the access check and the store operation.
C12_UnauthenticatedNoEffect ==
    resp.status = 401
    => /\ StoresUnchanged
       /\ nextFile = resp.before.nextFile

\* C12 witness: an update of an existing task that sent files failed the gate.
C12_Witness ==
    /\ resp.status = 401
    /\ resp.out.route = "taskUpdate"
    /\ resp.n > 0
    /\ OnExistingTask
    /\ StoresUnchanged

\* no two user records hold the same email
EmailsUnique ==
    \A i \in DOMAIN users, j \in DOMAIN users : i # j => users[i].email # users[j].email

\* the handled update asked for an email that a different user held
AsksForTakenEmail ==
    /\ resp.op = "userUpdate"
    /\ UserBodyValid(resp.body)
    /\ resp.id \in DOMAIN resp.before.users
    /\ \E k \in DOMAIN resp.before.users :
          k # resp.id /\ resp.before.users[k].email = resp.body.email

\* C15: with user updates executed one at a time no two user records hold the
\* same email, and an update to an email held by a different user fails with
\* 400 and leaves the user's name, email and role unchanged.
C15_EmailsUnique ==
    /\ EmailsUnique
    /\ AsksForTakenEmail => (resp.status = 400 /\ users = resp.before.users)

\* C15 witness: an update asked for another user's email together with a new
\* name, and was refused.
C15_Witness ==
    /\ AsksForTakenEmail
    /\ resp.status = 400
    /\ resp.body.name # users[resp.id].name

\* the handled user update passed, on arrival, the validators, the lookup and
\* the email check
PassedEmailCheck ==
    /\ resp.op = "userUpdate"
    /\ UserBodyValid(resp.body)
    /\ resp.id \in DOMAIN resp.before.users
    /\ \A k \in DOMAIN resp.before.users :
          k # resp.id => resp.before.users[k].email # resp.body.email

FileNames == {"p", "q"}

\* e.target.files of a multiple file input: one or more files
Selections == UNION {[1..k -> FileNames] : k \in 1..MaxSelect}

\* task.documents of the task being edited: the ids of its attachments
ExistingChoices == {[i \in 1..k |-> i] : k \in 0..DocumentCap}

\* the stores of the server are not touched by a step of the form itself
ServerUnchanged ==
    UNCHANGED <<users, tasks, files, nextUserId, nextTaskId, nextFile, handled, resp,
                inflight>>

\* the modal is shown for a new task (task = null) or for an edited one, whose
\* documents become existingDocuments
OpenForm(editing, docs) ==
    /\ ~form.open
    /\ ~editing => docs = <<>>
    /\ form' = [open |-> TRUE, editing |-> editing, files |-> <<>>,
                existingDocuments |-> docs, toast |-> "", sent |-> NotSent]

\* handleFileChange: the selection is refused when files.length +
\* selectedFiles.length > 3, and appended otherwise
handleFileChange(selectedFiles) ==
    /\ form.open
    /\ LET totalFiles == Len(form.files) + Len(selectedFiles)
       IN  IF totalFiles > UploadLimit
           THEN form' = [form EXCEPT !.toast = "Maximum 3 files allowed"]
           ELSE form' = [form EXCEPT !.files = form.files \o selectedFiles,
                                     !.toast = ""]

\* removeFile(index): files.filter((_, i) => i !== index), index from 0
removeFile(index) ==
    /\ form.open
    /\ index \in 0..(Len(form.files) - 1)
    /\ form' = [form EXCEPT
                  !.files = SubSeq(form.files, 1, index)
                            \o SubSeq(form.files, index + 2, Len(form.files)),
                  !.toast = ""]

\* removeExistingDocument(docId): the document leaves existingDocuments when
\* the server answered the delete request, and stays when the request failed
removeExistingDocument(docId, answered) ==
    /\ form.open
    /\ form.editing
    /\ docId \in Range(form.existingDocuments)
    /\ IF answered
       THEN form' = [form EXCEPT
                       !.existingDocuments =
                           SelectSeq(form.existingDocuments, LAMBDA d : d # docId),
                       !.toast = "Document removed"]
       ELSE form' = [form EXCEPT !.toast = "Failed to remove document"]

\* handleSubmit: every selected file is appended to the request, which is a
\* PUT for an edited task and a POST for a new one; onSave() closes the modal
\* when the server answered, a failure leaves it open
handleSubmit(answered) ==
    /\ form.open
    /\ LET request == [submitted |-> TRUE, editing |-> form.editing,
                       files |-> form.files, existing |-> form.existingDocuments]
       IN  IF answered
           THEN form' = [FormClosed EXCEPT !.sent = request]
           ELSE form' = [form EXCEPT !.sent = request, !.toast = "Failed to save task"]

\* onClose: the modal is dismissed
CloseForm ==
    /\ form.open
    /\ form' = [FormClosed EXCEPT !.sent = form.sent]

NextForm ==
    \/ \E editing \in BOOLEAN, docs \in ExistingChoices :
          OpenForm(editing, docs) /\ ServerUnchanged /\ UNCHANGED <<dash, auth>>
    \/ \E selectedFiles \in Selections :
          handleFileChange(selectedFiles) /\ ServerUnchanged /\ UNCHANGED <<dash, auth>>
    \/ \E index \in 0..(UploadLimit - 1) :
          removeFile(index) /\ ServerUnchanged /\ UNCHANGED <<dash, auth>>
    \/ \E docId \in 1..DocumentCap, answered \in BOOLEAN :
          removeExistingDocument(docId, answered) /\ ServerUnchanged /\ UNCHANGED <<dash, auth>>
    \/ \E answered \in BOOLEAN :
          handleSubmit(answered) /\ ServerUnchanged /\ UNCHANGED <<dash, auth>>
    \/ CloseForm /\ ServerUnchanged /\ UNCHANGED <<dash, auth>>

SpecForm == Init /\ [][NextForm]_vars

\* a submission carries at most three files, selected and existing together
SubmissionWithinLimit ==
    form.sent.submitted => Len(form.sent.files) + Len(form.sent.existing) <= 3

\* a step that raises the limit error leaves the selected files as they were
RejectedWhole ==
    form'.toast = "Maximum 3 files allowed" => form'.files = form.files

\* C19: through the task form a task is never sent more than 3 files: the
\* selected files plus the edited task's existing documents never exceed 3 at
\* submission, and a selection that would exceed the limit is rejected as a
\* whole with an error, leaving the selected-file list unchanged.
C19_FormNeverOverThree == []SubmissionWithinLimit /\ [][RejectedWhole]_vars

\* C19, the part the form does keep: the selected files alone never exceed 3
C19_SelectedWithinLimit == Len(form.files) <= 3 /\ Len(form.sent.files) <= 3

\* C19, the edited task's documents are left out of the count: a submission
\* for a task with documents carries more than 3 files together with them
C19_OverLimitSubmitted ==
    /\ form.sent.submitted
    /\ form.sent.editing
    /\ Len(form.sent.existing) >= 1
    /\ Len(form.sent.files) + Len(form.sent.existing) > 3

\* ============================================================== dashboard
\* Strings are sequences of letters, so that case and position are computed.
Titles == {<<"A", "b">>, <<"b">>}
Descriptions == {<<"b", "A">>, <<"b">>}
SearchTerms == {<<>>, <<"a">>, <<"A">>, <<"b", "a">>, <<"a", "b", "a">>}

\* the options of the status select and of the sort select
FilterOptions == {"all", "pending", "in-progress", "completed", "cancelled"}
SortOptions == {"dueDate", "priority", "title"}

\* the tasks a fetch can return in one position of the list
FetchedTask(id) ==
    {[id |-> id, title |-> t, description |-> d, status |-> s,
      priority |-> pd[1], dueDate |-> pd[2]] :
        t \in Titles, d \in Descriptions, s \in {"pending", "completed"},
        pd \in {<<"low", 1>>, <<"urgent", 2>>}}

\* response.data of fetchTasks: distinct tasks, newest first
FetchedLists ==
    UNION {{l \in [1..k -> UNION {FetchedTask(id) : id \in 1..k}] :
                \A i \in 1..k : l[i].id = k + 1 - i} : k \in 0..MaxFetched}

\* String.prototype.toLowerCase
toLowerCase_Unchanged(s) == s

toLowerCase(s) == [i \in 1..Len(s) |-> IF s[i] = "A" THEN "a" ELSE s[i]]

\* String.prototype.includes: term is a contiguous part of text
includes(text, term) ==
    \E i \in 0..(Len(text) - Len(term)) : SubSeq(text, i + 1, i + Len(term)) = term

matchesFilter(task) == dash.filter = "all" \/ task.status = dash.filter

matchesSearch(task) ==
    \/ includes(toLowerCase(task.title), toLowerCase(dash.searchTerm))
    \/ includes(toLowerCase(task.description), toLowerCase(dash.searchTerm))

\* String.prototype.localeCompare on these letters: letters first compared
\* without case ("a" before "b", a prefix before its extensions), then, all
\* else equal, lower case before upper case at the first difference
LetterRank(c) == IF c = "b" THEN 2 ELSE 1

Differences(x, y) == {i \in 1..Min(Len(x), Len(y)) : x[i] # y[i]}

First(S) == CHOOSE i \in S : \A j \in S : i <= j

localeCompare(a, b) ==
    LET la == toLowerCase(a)
        lb == toLowerCase(b)
    IN  IF Differences(la, lb) # {}
        THEN LetterRank(la[First(Differences(la, lb))])
             - LetterRank(lb[First(Differences(la, lb))])
        ELSE IF Len(a) # Len(b) THEN Len(a) - Len(b)
        ELSE IF Differences(a, b) = {} THEN 0
        ELSE IF a[First(Differences(a, b))] = "a" THEN 0 - 1 ELSE 1

\* Faulty variant: high and urgent change places.
priorityOrder_HighFirst(p) ==
    CASE p = "urgent" -> 3 [] p = "high" -> 4 [] p = "medium" -> 2 [] OTHER -> 1

\* const priorityOrder = { urgent: 4, high: 3, medium: 2, low: 1 }
priorityOrder(p) ==
    CASE p = "urgent" -> 4 [] p = "high" -> 3 [] p = "medium" -> 2 [] OTHER -> 1

\* the comparison function handed to sort
Compare(a, b) ==
    CASE dash.sortBy = "dueDate" -> a.dueDate - b.dueDate
      [] dash.sortBy = "priority" -> priorityOrder(b.priority) - priorityOrder(a.priority)
      [] dash.sortBy = "title" -> localeCompare(a.title, b.title)
      [] OTHER -> 0

\* Array.prototype.sort, which is stable: each task goes behind the tasks
\* that do not compare greater than it
InsertSorted(sorted, t) ==
    LET later == {i \in 1..Len(sorted) : Compare(sorted[i], t) > 0}
        at == IF later = {} THEN Len(sorted) + 1 ELSE First(later)
    IN  SubSeq(sorted, 1, at - 1) \o <<t>> \o SubSeq(sorted, at, Len(sorted))

RECURSIVE Sorted(_)
Sorted(list) ==
    IF list = <<>> THEN <<>>
    ELSE InsertSorted(Sorted(SubSeq(list, 1, Len(list) - 1)), list[Len(list)])

\* the list the dashboard renders
filteredTasks ==
    Sorted(SelectSeq(dash.tasks, LAMBDA task : matchesFilter(task) /\ matchesSearch(task)))

\* fetchTasks: the answer replaces the tasks, a failure leaves them
fetchTasks(data, answered) ==
    dash' = IF answered THEN [dash EXCEPT !.tasks = data] ELSE dash

setFilter(value) == dash' = [dash EXCEPT !.filter = value]

setSearchTerm(value) == dash' = [dash EXCEPT !.searchTerm = value]

setSortBy(value) == dash' = [dash EXCEPT !.sortBy = value]

NextDash ==
    \/ \E data \in FetchedLists, answered \in BOOLEAN :
          fetchTasks(data, answered) /\ ServerUnchanged /\ UNCHANGED <<form, auth>>
    \/ \E value \in FilterOptions : setFilter(value) /\ ServerUnchanged /\ UNCHANGED <<form, auth>>
    \/ \E value \in SearchTerms :
          setSearchTerm(value) /\ ServerUnchanged /\ UNCHANGED <<form, auth>>
    \/ \E value \in SortOptions : setSortBy(value) /\ ServerUnchanged /\ UNCHANGED <<form, auth>>

SpecDash == Init /\ [][NextDash]_vars

\* two letters that differ at most in case
SameLetter(c, d) == c = d \/ {c, d} = {"a", "A"}

\* term occurs in text at some position, case ignored
OccursIgnoringCase(term, text) ==
    \E at \in 1..(Len(text) + 1) :
        /\ at + Len(term) - 1 <= Len(text)
        /\ \A k \in 1..Len(term) : SameLetter(text[at + k - 1], term[k])

\* what the dashboard is to show of a fetched task
Wanted(t) ==
    /\ dash.filter = "all" \/ t.status = dash.filter
    /\ \/ OccursIgnoringCase(dash.searchTerm, t.title)
       \/ OccursIgnoringCase(dash.searchTerm, t.description)

\* C20: the displayed list is exactly the fetched tasks t for which (the
\* status filter is all or t.status equals the filter) and (the search term
\* occurs, ignoring case, in t.title or in t.description): none satisfying
\* both is hidden, none failing either is shown, and none is shown twice.
C20_DisplayedExactlyWanted ==
    /\ Range(filteredTasks) = {t \in Range(dash.tasks) : Wanted(t)}
    /\ Len(filteredTasks) = Cardinality(Range(filteredTasks))

\* C20 witness: with a status filter and a search term set, one fetched task
\* is shown because the term occurs in its description only, in another case,
\* and the other is hidden because the term occurs in neither field although
\* its status passes the filter.
C20_Witness ==
    /\ dash.filter = "completed"
    /\ dash.searchTerm = <<"b", "a">>
    /\ Len(dash.tasks) = 2
    /\ \E t \in Range(filteredTasks) :
          /\ t.description = <<"b", "A">>
          /\ ~OccursIgnoringCase(dash.searchTerm, t.title)
    /\ \E t \in Range(dash.tasks) \ Range(filteredTasks) :
          /\ t.status = "completed"
          /\ t.description = <<"b">>

\* ====================================================== dashboard: sorting
\* the priorities a stored task can have (the Task schema's enum)
Priorities == {"low", "medium", "high", "urgent"}

\* a fetched task whose priority, due date and status vary
SortTask(id) ==
    {[id |-> id, title |-> <<"b">>, description |-> <<"b">>, status |-> s,
      priority |-> p, dueDate |-> d] :
        s \in {"pending", "completed"}, p \in Priorities, d \in 1..2}

\* the task lists the dashboard can hold, newest first
SortLists ==
    UNION {{l \in [1..k -> UNION {SortTask(id) : id \in 1..k}] :
                \A i \in 1..k : l[i].id = k + 1 - i} : k \in 0..MaxSorted}

\* the dashboard after some fetch has answered
InitSort ==
    /\ users = <<>>
    /\ tasks = <<>>
    /\ files = {}
    /\ nextUserId = 1
    /\ nextTaskId = 1
    /\ nextFile = 1
    /\ handled = 0
    /\ inflight = {}
    /\ form = FormClosed
    /\ dash \in {[DashboardInit EXCEPT !.tasks = l] : l \in SortLists}
    /\ auth = AuthInit(Null)
    /\ resp = Response("none", [id |-> NoId, role |-> "user"], NoId, NoId, NoBody, 0, 0, Msg(""))

NextSort ==
    \/ \E value \in SortOptions : setSortBy(value) /\ ServerUnchanged /\ UNCHANGED <<form, auth>>
    \/ \E value \in FilterOptions : setFilter(value) /\ ServerUnchanged /\ UNCHANGED <<form, auth>>

SpecSort == InitSort /\ [][NextSort]_vars

\* the rank of a priority: its place in low < medium < high < urgent
RankOrder == <<"low", "medium", "high", "urgent">>

Rank(p) == CHOOSE r \in 1..4 : RankOrder[r] = p

\* C21: with sort option priority the displayed tasks are ordered by
\* non-increasing priority rank urgent > high > medium > low: of every two
\* displayed tasks the one with the strictly higher rank appears first.
C21_PriorityOrder ==
    dash.sortBy = "priority"
    => \A i, j \in 1..Len(filteredTasks) :
          Rank(filteredTasks[i].priority) > Rank(filteredTasks[j].priority) => i < j

\* C21 witness: three tasks fetched in the order low, medium, urgent are
\* displayed in the opposite order under the priority sort.
C21_Witness ==
    /\ dash.sortBy = "priority"
    /\ Len(dash.tasks) = 3
    /\ Len(filteredTasks) = 3
    /\ dash.tasks[1].priority = "low"
    /\ dash.tasks[2].priority = "medium"
    /\ dash.tasks[3].priority = "urgent"
    /\ filteredTasks[1].priority = "urgent"
    /\ filteredTasks[3].priority = "low"

\* every attachment entry of every task names a file of the content store
AttachmentsNameFiles ==
    \A id \in DOMAIN tasks :
        \A i \in 1..Len(tasks[id].documents) : tasks[id].documents[i].path \in files

\* C22: in every state reachable by any interleaving of task create, update,
\* delete and attachment-delete requests, every attachment entry stored in a
\* task names a file that is present in the content store; in particular an
\* update that read the task before a concurrent attachment deletion of the
\* same task does not write the deleted attachment back into the list.
C22_AttachmentsNameFiles ==
    /\ AttachmentsNameFiles
    /\ (resp.op = "taskUpdate" /\ resp.status = 200 /\ resp.id \in DOMAIN tasks)
          => \A i \in 1..Len(tasks[resp.id].documents) :
                 tasks[resp.id].documents[i].path \in files

\* C22, the entry outlives its file while an attachment delete is between its
\* unlink and its save
C22_DanglingBetweenUnlinkAndSave ==
    /\ ~AttachmentsNameFiles
    /\ \E p \in inflight : p.op = "docDelete"

\* C22, the entry is written back by an update that read it before the delete,
\* and is left in the task when no request is pending any more
C22_WrittenBackAtRest ==
    /\ ~AttachmentsNameFiles
    /\ inflight = {}
    /\ resp.op = "taskUpdate"
    /\ resp.status = 200

\* the entries another update has added to the list since p read it, when the
\* list p read is still its beginning
AddedSince(p) ==
    SubSeq(tasks[p.id].documents, Len(p.docs) + 1, Len(tasks[p.id].documents))

\* p is an update with files whose save meets a list that a concurrent update
\* has extended
MeetsConcurrentUpdate(p) ==
    /\ p.op = "taskUpdate"
    /\ p.n > 0
    /\ p.id \in DOMAIN tasks
    /\ Len(tasks[p.id].documents) > Len(p.docs)
    /\ SubSeq(tasks[p.id].documents, 1, Len(p.docs)) = p.docs

\* the attachment lists the two updates leave when run one after the other
SerialResults(p) ==
    {AllDocuments(tasks[p.id].documents, p.new),
     AllDocuments(AllDocuments(p.docs, p.new), AddedSince(p))}

\* C23: concurrent updates of the same task are serializable with respect to
\* attachments: for two concurrent successful updates that each upload files,
\* the final attachment list is the one produced by running the two one after
\* the other in some order.
C23_UpdatesSerializable ==
    [][\A p \in inflight :
          (MeetsConcurrentUpdate(p) /\ inflight' = inflight \ {p} /\ resp'.status = 200)
          => tasks'[p.id].documents \in SerialResults(p)]_vars

\* C23, the case at stake: the save of an update with files is accepted
\* although a concurrent update has extended the list since it was read
C23_StaleSaveAccepted ==
    /\ resp.op = "taskUpdate"
    /\ resp.status = 200
    /\ resp.n > 0
    /\ resp.id \in DOMAIN resp.before.tasks
    /\ resp.id \in DOMAIN tasks
    /\ \E d \in Range(resp.before.tasks[resp.id].documents) :
          /\ d \notin Range(tasks[resp.id].documents)
          /\ d.path \in files

\* the files some task lists as an attachment
Recorded == UNION {Paths(tasks[id].documents) : id \in DOMAIN tasks}

\* the files of the content store that no task lists
Orphans == files \ Recorded

\* the files the upload step of the request just handled wrote
UploadedBy ==
    IF resp.op \in {"taskCreate", "taskUpdate"}
    THEN resp.before.nextFile..(resp.before.nextFile + resp.n - 1)
    ELSE {}

\* the request that uploaded files removed none of them, and left them
\* unlisted when it was refused
UploadKept ==
    /\ UploadedBy \subseteq files
    /\ resp.status \in {400, 403, 404} => UploadedBy \subseteq Orphans

\* a step removes no unlisted file and lists none
OrphansStay == Orphans \subseteq Orphans'

\* C24: a file written to the content store by the upload step of a create or
\* update request but not recorded in any task (dropped by the 3-item
\* truncation, or the request rejected with 400, 403 or 404) stays in the
\* content store: no step of that request and no later task or attachment
\* deletion removes it.
C24_UnrecordedFilesStay == []UploadKept /\ [][OrphansStay]_vars

\* C24 witness: a task or attachment deletion has removed a file while a file
\* that no task listed before it is still in the content store.
C24_Witness ==
    /\ resp.op \in {"taskDelete", "docDelete"}
    /\ resp.status = 200
    /\ files # resp.before.files
    /\ \E f \in Orphans :
          /\ f \in resp.before.files
          /\ \A id \in DOMAIN resp.before.tasks :
                f \notin Paths(resp.before.tasks[id].documents)

\* C24 witness of the truncation: an accepted update stored more files than
\* the list took, and the dropped ones are in the content store, unlisted.
C24_TruncatedLeftInStore ==
    /\ resp.op = "taskUpdate"
    /\ resp.status = 200
    /\ \E f \in UploadedBy : f \in Orphans

\* ================================================= access after reassignment
\* The stores after two registrations and one create: users 1 and 2, and task 1
\* created by user 1 for themselves with one attachment.
InitAccess ==
    /\ users = <<[name |-> "n", email |-> RegEmail(1), password |-> "hash",
                  role |-> "user"],
                 [name |-> "n", email |-> RegEmail(2), password |-> "hash",
                  role |-> "user"]>>
    /\ tasks = <<[title |-> "a", description |-> "d", status |-> "pending",
                  priority |-> "medium", dueDate |-> "2025-01-01", assignedTo |-> 1,
                  createdBy |-> 1, documents |-> <<[id |-> 1, path |-> 1]>>,
                  createdAt |-> 1]>>
    /\ files = {1}
    /\ nextUserId = 3
    /\ nextTaskId = 2
    /\ nextFile = 2
    /\ handled = 0
    /\ inflight = {}
    /\ form = FormClosed
    /\ dash = DashboardInit
    /\ auth = AuthInit(Null)
    /\ resp = Response("none", [id |-> NoId, role |-> "user"], NoId, NoId, NoBody, 0, 0, Msg(""))

\* one more of the requests on the task, within their bound
HandleAccess == handled < MaxAccessRequests /\ Handle

\* the requests on single tasks, and the deletion of users
NextAccess ==
    \/ \E user \in Requesters, id \in UserIdInputs : HandleAccess /\ UserDelete(user, id)
    \/ \E user \in Requesters, id \in TaskIdInputs : HandleAccess /\ TaskRead(user, id)
    \/ \E user \in Requesters, id \in TaskIdInputs, b \in TaskBodies, n \in FileCounts :
          HandleAccess /\ TaskUpdate(user, id, b, n)
    \/ \E user \in Requesters, id \in TaskIdInputs : HandleAccess /\ TaskDelete(user, id)
    \/ \E user \in Requesters, id \in TaskIdInputs, docId \in DocIdInputs :
          HandleAccess /\ DocDelete(user, id, docId)

SpecAccess == InitAccess /\ [][NextAccess]_vars

\* the update just answered moved task id from assignee u to assignee v
Reassigned(id, u, v) ==
    /\ resp.op = "taskUpdate"
    /\ resp.status = 200
    /\ resp.id = id
    /\ resp.before.tasks[id].assignedTo = u
    /\ tasks[id].assignedTo = v

\* a request on task id, which v holds: refused with 403 when sent by u
\* without the admin role, and not refused for access when sent by v
FollowsAssignee(id, u, v) ==
    (/\ resp.op \in {"taskRead", "taskUpdate", "taskDelete", "docDelete"}
     /\ resp.id = id
     /\ OnExistingTask
     /\ TaskBefore.assignedTo = v
     /\ (resp.op = "taskUpdate" => TaskBodyValid(resp.body)))
    => /\ resp.user = [id |-> u, role |-> "user"] => resp.status = 403
       /\ resp.user.id = v => resp.status \in {200, 400, 404}

\* a creator who is neither the assignee nor an admin is refused
CreatorHasNoAccess ==
    (/\ resp.op \in {"taskRead", "taskUpdate", "taskDelete", "docDelete"}
     /\ OnExistingTask
     /\ resp.user.id = TaskBefore.createdBy
     /\ resp.user.role # "admin"
     /\ TaskBefore.assignedTo # resp.user.id
     /\ (resp.op = "taskUpdate" => TaskBodyValid(resp.body)))
    => resp.status = 403

\* C25: access to a task follows its current assignee only: after a
\* successful update that changes the assignee from U to V, every later read,
\* update, delete or attachment-delete of that task by a non-admin U is refused
\* with 403 and the same requests by V pass the access check; having created
\* the task gives a non-admin, non-assignee creator no access.
C25_AccessFollowsAssignee ==
    /\ \A id \in 1..MaxTasks : \A u, v \in 1..MaxUsers :
          u # v => [](Reassigned(id, u, v) => []FollowsAssignee(id, u, v))
    /\ []CreatorHasNoAccess

\* the user record of the task's assignee was there when the request arrived
AssigneeExists == TaskBefore.assignedTo \in DOMAIN resp.before.users

\* C25, with the assignee's user record in place the access does follow the
\* current assignee, and the creator has none
C25_FollowsWhileAssigneeExists ==
    /\ \A id \in 1..MaxTasks : \A u, v \in 1..MaxUsers :
          u # v => [](Reassigned(id, u, v)
                        => []((OnExistingTask /\ AssigneeExists) => FollowsAssignee(id, u, v)))
    /\ []((OnExistingTask /\ AssigneeExists) => CreatorHasNoAccess)

\* C25, the case that fails: the former assignee reads the task after the new
\* assignee's user record was deleted, and is answered 500
C25_FormerAssigneeGetsServerError ==
    /\ resp.op = "taskRead"
    /\ resp.status = 500
    /\ OnExistingTask
    /\ resp.user = [id |-> TaskBefore.createdBy, role |-> "user"]
    /\ TaskBefore.assignedTo # resp.user.id
    /\ ~AssigneeExists

\* the request names a user record that exists
OnExistingUser == resp.id \in DOMAIN resp.before.users

\* no other user holds the email of the request
EmailFree ==
    \A k \in DOMAIN resp.before.users :
        k # resp.id => resp.before.users[k].email # resp.body.email

\* C26: user update and user delete apply no role or ownership check: for
\* any authenticated requester and any existing target user, PUT
\* /api/users/:id with a valid name and a free email succeeds and DELETE
\* /api/users/:id succeeds; in particular a requester with role user can set
\* their own or any other user's role to admin.
C26_NoCheckOnUserRoutes ==
    /\ (resp.op = "userUpdate" /\ OnExistingUser /\ UserBodyValid(resp.body) /\ EmailFree)
          => /\ resp.status = 200
             /\ users[resp.id].name = resp.body.name
             /\ users[resp.id].email = resp.body.email
             /\ resp.body.role # Absent => users[resp.id].role = resp.body.role
    /\ (resp.op = "userDelete" /\ OnExistingUser)
          => /\ resp.status = 200
             /\ resp.id \notin DOMAIN users

\* C26 witness: a requester with role user has made another user an admin.
C26_Witness ==
    /\ resp.op = "userUpdate"
    /\ resp.status = 200
    /\ resp.user.role = "user"
    /\ resp.user.id # resp.id
    /\ resp.before.users[resp.id].role = "user"
    /\ resp.body.role = "admin"
    /\ users[resp.id].role = "admin"

\* C26 witness of the deletion: a requester with role user has deleted
\* another user's record.
C26_UserDeletesOther ==
    /\ resp.op = "userDelete"
    /\ resp.status = 200
    /\ resp.user.role = "user"
    /\ resp.user.id # resp.id
    /\ resp.id \notin DOMAIN users

\* a step leaves the creator and the creation time of every task that it
\* keeps as they were, and a task keeps its identifier
CreatorKept ==
    \A id \in DOMAIN tasks \cap DOMAIN tasks' :
        /\ tasks'[id].createdBy = tasks[id].createdBy
        /\ tasks'[id].createdAt = tasks[id].createdAt

\* the task a create request stored names the requester as its creator
CreatorIsRequester == CreateSucceeded => Created.createdBy = resp.user.id

\* an accepted update left the task under its identifier, with the creator
\* and the creation time it had
UpdateKeepsOrigin ==
    (resp.op = "taskUpdate" /\ resp.status = 200)
    => /\ DOMAIN tasks = DOMAIN resp.before.tasks
       /\ tasks[resp.id].createdBy = TaskBefore.createdBy
       /\ tasks[resp.id].createdAt = TaskBefore.createdAt
       /\ resp.out._id = resp.id

\* C27: a task update never changes the task's identifier, creator or
\* creation timestamp: after any sequence of successful updates by any
\* requesters, createdBy is still the user who issued the create request.
C27_UpdateKeepsCreator ==
    [](CreatorIsRequester /\ UpdateKeepsOrigin) /\ [][CreatorKept]_vars

\* C27 witness: a requester who did not create the task has updated it and
\* handed it to another user, and the creator is the one it was.
C27_Witness ==
    /\ resp.op = "taskUpdate"
    /\ resp.status = 200
    /\ resp.user.id # TaskBefore.createdBy
    /\ tasks[resp.id].assignedTo # TaskBefore.assignedTo
    /\ tasks[resp.id].assignedTo # TaskBefore.createdBy
    /\ tasks[resp.id].createdBy = TaskBefore.createdBy

\* =========================================================== auth context
\* the tokens the server issues, the token a former session left in local
\* storage, and the users the server answers with
IssuedTokens == {"t1", "t2"}
StoredAtStart == {Null, "t0"}
UserPayloads == {"u1", "u2"}

\* authReducer
authReducer(state, type, payload) ==
    CASE type = "LOGIN_SUCCESS" ->
            [state EXCEPT !.user = payload.user, !.token = payload.token,
                          !.isAuthenticated = TRUE, !.loading = FALSE]
      [] type \in {"LOGIN_FAIL", "LOGOUT"} ->
            [state EXCEPT !.user = Null, !.token = Null,
                          !.isAuthenticated = FALSE, !.loading = FALSE]
      [] type = "USER_LOADED" ->
            [state EXCEPT !.user = payload.user,
                          !.isAuthenticated = TRUE, !.loading = FALSE]
      [] type = "AUTH_ERROR" ->
            [state EXCEPT !.user = Null, !.token = Null,
                          !.isAuthenticated = FALSE, !.loading = FALSE]
      [] OTHER -> state

NoPayload == [user |-> Null, token |-> Null]

\* dispatch(action), as the last step of the operation named
Dispatch(a, type, payload, operation) ==
    [a EXCEPT !.state = authReducer(a.state, type, payload), !.last = operation]

\* useEffect(() => { loadUser() }, []): with a token the user is requested,
\* without one AUTH_ERROR is dispatched at once
loadUserBegin ==
    /\ ~auth.mounted
    /\ IF auth.state.token # Null
       THEN auth' = [auth EXCEPT !.mounted = TRUE, !.pending = @ \cup {"loadUser"}]
       ELSE auth' = Dispatch([auth EXCEPT !.mounted = TRUE], "AUTH_ERROR", NoPayload,
                             "userLoadFailed")

\* the response to GET /api/auth/user arrives: USER_LOADED or AUTH_ERROR
loadUserAnswer(answered, user) ==
    /\ "loadUser" \in auth.pending
    /\ LET a == [auth EXCEPT !.pending = @ \ {"loadUser"}]
       IN  auth' = IF answered
                   THEN Dispatch(a, "USER_LOADED", [user |-> user, token |-> Null],
                                 "userLoaded")
                   ELSE Dispatch(a, "AUTH_ERROR", NoPayload, "userLoadFailed")

\* login and register post their request
SignInBegin(operation) ==
    /\ auth.mounted
    /\ operation \notin auth.pending
    /\ auth' = [auth EXCEPT !.pending = @ \cup {operation}]

\* the response to the login or the register request arrives: the token is
\* stored and LOGIN_SUCCESS dispatched, or LOGIN_FAIL is dispatched
SignInAnswer(operation, answered, user, token) ==
    /\ operation \in auth.pending
    /\ LET a == [auth EXCEPT !.pending = @ \ {operation}]
       IN  auth' = IF answered
                   THEN Dispatch([a EXCEPT !.stored = token], "LOGIN_SUCCESS",
                                 [user |-> user, token |-> token], operation \o "Success")
                   ELSE Dispatch(a, "LOGIN_FAIL", NoPayload, operation \o "Fail")

\* logout: localStorage.removeItem('token'); dispatch({ type: 'LOGOUT' })
logout ==
    /\ auth.mounted
    /\ auth' = Dispatch([auth EXCEPT !.stored = Null], "LOGOUT", NoPayload, "logout")

\* the page is opened with or without a token left in local storage
InitAuth ==
    /\ users = <<>>
    /\ tasks = <<>>
    /\ files = {}
    /\ nextUserId = 1
    /\ nextTaskId = 1
    /\ nextFile = 1
    /\ handled = 0
    /\ inflight = {}
    /\ form = FormClosed
    /\ dash = DashboardInit
    /\ auth \in {AuthInit(stored) : stored \in StoredAtStart}
    /\ resp = Response("none", [id |-> NoId, role |-> "user"], NoId, NoId, NoBody, 0, 0, Msg(""))

NextAuth ==
    \/ loadUserBegin /\ ServerUnchanged /\ UNCHANGED <<form, dash>>
    \/ \E answered \in BOOLEAN, user \in UserPayloads :
          loadUserAnswer(answered, user) /\ ServerUnchanged /\ UNCHANGED <<form, dash>>
    \/ \E operation \in {"login", "register"} :
          SignInBegin(operation) /\ ServerUnchanged /\ UNCHANGED <<form, dash>>
    \/ \E operation \in {"login", "register"}, answered \in BOOLEAN,
           user \in UserPayloads, token \in IssuedTokens :
          SignInAnswer(operation, answered, user, token)
          /\ ServerUnchanged /\ UNCHANGED <<form, dash>>
    \/ logout /\ ServerUnchanged /\ UNCHANGED <<form, dash>>

SpecAuth == InitAuth /\ [][NextAuth]_vars

\* C28: in every reachable state of the client auth context, under any
\* ordering of the dispatched actions (a user-load response that arrives after
\* a failed login or a logout included), isAuthenticated = true implies that
\* both user and token are non-null.
C28_AuthenticatedHasUserAndToken ==
    auth.state.isAuthenticated => (auth.state.user # Null /\ auth.state.token # Null)

\* C28, the case that fails: the user load answered after a failed login or a
\* logout, and the context is authenticated without a token
C28_AuthenticatedWithoutToken ==
    /\ auth.last = "userLoaded"
    /\ auth.state.isAuthenticated
    /\ auth.state.user # Null
    /\ auth.state.token = Null

\* the auth operations that end by storing or dropping the token
CompletedOperations ==
    {"loginSuccess", "registerSuccess", "loginFail", "registerFail", "userLoadFailed",
     "logout"}

\* C29: the in-memory token of the auth context and the token persisted in
\* local storage agree after every completed auth operation (login success,
\* registration success, login or registration failure, failed user load,
\* logout): whenever the in-memory token is null, no token remains in local
\* storage.
C29_TokenAgreesWithStorage ==
    auth.last \in CompletedOperations
    => /\ auth.state.token = Null => auth.stored = Null
       /\ auth.state.token # Null => auth.stored = auth.state.token

\* C29, the case that fails: an operation failed and dropped the in-memory
\* token while local storage still holds one
C29_StoredTokenOutlivesFailure ==
    /\ auth.last \in {"loginFail", "registerFail", "userLoadFailed"}
    /\ auth.state.token = Null
    /\ auth.stored # Null

\* C29, the part that holds: after a logout, and after a login or registration
\* that succeeded, storage and context hold the same token or none
C29_AgreeAfterSuccessAndLogout ==
    auth.last \in {"loginSuccess", "registerSuccess", "logout"}
    => auth.stored = auth.state.token

\* a response record carries no password
NoPassword(r) == "password" \notin DOMAIN r

\* C30: no response of the user routes exposes a password hash: the user
\* list, the user read-by-id and the user update response contain, for every
\* user, no password field in any reachable state.
C30_NoPasswordInResponses ==
    /\ resp.op \in {"userRead", "userUpdate"} => NoPassword(resp.out)
    /\ resp.op = "userList" => \A k \in DOMAIN resp.out : NoPassword(resp.out[k])

\* C30 witness: the list answered with the records of two users whose stored
\* records hold a password hash.
C30_Witness ==
    /\ resp.op = "userList"
    /\ resp.status = 200
    /\ Cardinality(DOMAIN resp.out) = 2
    /\ \A k \in DOMAIN resp.out :
          /\ users[k].password = "hash"
          /\ resp.out[k].email = users[k].email

\* C30 witness of the other two routes: a read and an update answered with
\* the record of a user whose stored record holds a password hash.
C30_ReadOrUpdateAnswered ==
    /\ resp.op \in {"userRead", "userUpdate"}
    /\ resp.status = 200
    /\ users[resp.id].password = "hash"
    /\ resp.out.email = users[resp.id].email

====
